---- MODULE Spec2Model ----
(***************************************************************************)
(* The move-history tree of src/src/History.ts: construction from a parsed *)
(* PGN move list (History.constructor, History.traverse), validation and    *)
(* insertion of single moves (History.validateMove, History.addMove), the   *)
(* path to a move (History.historyToMove) and the movetext of the tree      *)
(* (History.render, renderCommands).                                        *)
(*                                                                         *)
(* Objects live in two heaps.  heap[m] is the Move object with identity m,  *)
(* lists[l] is the JavaScript array with identity l; a field that holds a   *)
(* reference holds the identity.  Null (0) is null.                         *)
(***************************************************************************)
EXTENDS Integers, Sequences, FiniteSets, TLC

VARIABLES
    heap,       \* Move objects, by identity: the fields of type Move
    lists,      \* Move[] arrays, by identity
    moves,      \* History.moves (identity of an array)
    setUpFen,   \* History.setUpFen
    setUpPly,   \* History.setUpPly
    pgn,        \* the constructor's argument `moves: PgnMove[]`, <<>> once it has returned
    stack,      \* the activation records of History.traverse
    pc,         \* "constructor" | "traverse" | "ready"
    held,       \* the Moves validateMove has returned to the caller
    last,       \* the call that produced this state, with its outcome
    original    \* the lines of the tree whose movetext `pgn` was parsed from

vars == <<heap, lists, moves, setUpFen, setUpPly, pgn, stack, pc, held, last,
          original>>

Null == 0

\* ------------------------------------------------------------------ bounds
MaxInput == 4       \* PgnMove records and variation arrays in the parsed input
MaxMoves == 3       \* Move objects the editor may bring the heap to
MaxHeld == 1        \* validated Moves the caller keeps
MaxAnnotated == 3   \* PgnMove records and annotations of an annotated input

\* ---------------------------------------------------------- rules engine
\* chess.js is consumed as a service.  A position keeps the two FEN fields
\* the program reads (Fen.moveNumber, Fen.colorToPlay); a notation is legal
\* when it is a move of the side to play.
WhiteSans == {"e4", "d4"}
BlackSans == {"e5"}
Notations == WhiteSans \cup BlackSans

StartFen == [moveNumber |-> 1, colorToPlay |-> "w"]

\* the value of a `string | null` FEN that is null
NoFen == [moveNumber |-> 0, colorToPlay |-> "-"]

SetUpFens == {NoFen, [moveNumber |-> 10, colorToPlay |-> "b"],
                     [moveNumber |-> 2, colorToPlay |-> "w"]}

\* new Chess(fen) / new Chess() / chess.load(fen)
Chess(fen) == IF fen /= NoFen THEN fen ELSE StartFen

Legal(chess, notation) ==
    IF chess.colorToPlay = "w" THEN notation \in WhiteSans
                               ELSE notation \in BlackSans

After(chess) ==
    IF chess.colorToPlay = "w"
    THEN [moveNumber |-> chess.moveNumber, colorToPlay |-> "b"]
    ELSE [moveNumber |-> chess.moveNumber + 1, colorToPlay |-> "w"]

\* chess.move(notation, ...): the move result, or a throw
chessMove(chess, notation) ==
    IF Legal(chess, notation)
    THEN [threw |-> FALSE, san |-> notation, after |-> After(chess)]
    ELSE [threw |-> TRUE, san |-> notation, after |-> chess]

\* ------------------------------------------------------------ parsed input
\* A PgnMove is [notation, variations]; variations is a sequence of lines, a
\* line a sequence of PgnMoves.  The weight of an input counts its PgnMove
\* records and its variation arrays.
RECURSIVE LinesOfWeight(_), PgnMovesOfWeight(_), VariationsOfWeight(_)
LinesOfWeight(n) ==
    IF n = 0 THEN {<<>>}
    ELSE UNION {{<<p>> \o rest : p \in PgnMovesOfWeight(k),
                                 rest \in LinesOfWeight(n - k)} : k \in 1..n}
PgnMovesOfWeight(k) ==
    [notation : Notations, variations : VariationsOfWeight(k - 1)]
VariationsOfWeight(n) ==
    IF n = 0 THEN {<<>>}
    ELSE UNION {{<<l>> \o rest : l \in LinesOfWeight(w - 1),
                                 rest \in VariationsOfWeight(n - w)} : w \in 1..n}

Inputs == UNION {LinesOfWeight(n) : n \in 0..MaxInput}

\* ------------------------------------------------------ strings and values
\* A JavaScript string is the sequence of its characters, an array the
\* sequence of its elements.  An optional field is Undefined or Defined(v).
Undefined == [defined |-> FALSE, value |-> <<>>]
Defined(v) == [defined |-> TRUE, value |-> v]

\* `if (x)` for a `string | undefined`
TruthyString(x) == x.defined /\ Len(x.value) > 0

\* `if (x)` for an array or an object, or undefined
TruthyObject(x) == x.defined

\* pgnMove.<field> of a record that may lack the key
Get(pgnMove, field) ==
    IF field \in DOMAIN pgnMove THEN pgnMove[field] ELSE Undefined

\* `{} as PgnMove` (line 280)
EmptyPgnMove == [nag |-> Undefined]

\* the characters of the SANs and of the keys of a DiagramComment
Chars(s) ==
    CASE s = "e4" -> <<"e", "4">>
      [] s = "d4" -> <<"d", "4">>
      [] s = "e5" -> <<"e", "5">>
      [] s = "clk" -> <<"c", "l", "k">>
      [] s = "eval" -> <<"e", "v", "a", "l">>
      [] s = "c_arrow" -> <<"c", "_", "a", "r", "r", "o", "w">>
      [] s = "c_highlight" -> <<"c", "_", "h", "i", "g", "h", "l", "i", "g", "h", "t">>
      [] OTHER -> <<"?">>

Digit == <<"0", "1", "2", "3", "4", "5", "6", "7", "8", "9">>

\* number + '': the decimal digits of a natural number
RECURSIVE NumberToString(_)
NumberToString(n) ==
    IF n < 10 THEN <<Digit[n + 1]>>
    ELSE NumberToString(n \div 10) \o <<Digit[(n % 10) + 1]>>

\* string.split(separator) for a one-character separator
RECURSIVE Split(_, _)
Split(s, separator) ==
    IF \E i \in 1..Len(s) : s[i] = separator
    THEN LET i == CHOOSE i \in 1..Len(s) :
                     /\ s[i] = separator
                     /\ \A j \in 1..(i - 1) : s[j] /= separator
         IN <<SubSeq(s, 1, i - 1)>> \o Split(SubSeq(s, i + 1, Len(s)), separator)
    ELSE <<s>>

\* array.join(separator)
RECURSIVE Join(_, _)
Join(array, separator) ==
    IF Len(array) = 0 THEN <<>>
    ELSE IF Len(array) = 1 THEN array[1]
    ELSE array[1] \o separator \o Join(Tail(array), separator)

\* ------------------------------------------------------- DiagramComment
\* A DiagramComment is the sequence of its [key, value] entries, in the
\* order of insertion; a value is a string or an array of strings.
StringValue(s) == [type |-> "string", string |-> s, array |-> <<>>]
ArrayValue(a) == [type |-> "array", string |-> <<>>, array |-> a]

\* `if (v)` for v: string | string[] | undefined
Truthy(v) == v.defined /\ (v.value.type = "array" \/ Len(v.value.string) > 0)

\* `v && typeof v === 'string'`
TruthyStringValue(v) == v.defined /\ v.value.type = "string" /\ Len(v.value.string) > 0

HasKey(object, key) == \E i \in 1..Len(object) : object[i].key = key

\* object[key]
Lookup(object, key) ==
    IF HasKey(object, key)
    THEN Defined(object[CHOOSE i \in 1..Len(object) : object[i].key = key].value)
    ELSE Undefined

\* object[key] = value
Assign(object, key, value) ==
    IF HasKey(object, key)
    THEN [i \in 1..Len(object) |->
             IF object[i].key = key THEN [key |-> key, value |-> value]
                                    ELSE object[i]]
    ELSE Append(object, [key |-> key, value |-> value])

\* lines 70-83
getColorFromChesscomKeypress(keypress) ==
    IF ~keypress.defined THEN <<"R">>
    ELSE CASE keypress.value = <<"s", "h", "i", "f", "t">> -> <<"G">>
           [] keypress.value = <<"c", "t", "r", "l">> -> <<"Y">>
           [] keypress.value = <<"a", "l", "t">> -> <<"B">>
           [] OTHER -> <<"R">>

\* lines 97-105 and 110-118: the converted entries of one chess.com list
RECURSIVE ConvertList(_, _)
ConvertList(entries, i) ==
    IF i > Len(entries) THEN <<>>
    ELSE LET tokens == Split(entries[i], ";")
             squares == tokens[1]
             color == getColorFromChesscomKeypress(
                          IF Len(tokens) >= 3 THEN Defined(tokens[3]) ELSE Undefined)
         IN (IF Len(squares) > 0 THEN <<color \o squares>> ELSE <<>>)
                \o ConvertList(entries, i + 1)

\* lines 90-95: `if (!commentDiag[key]) commentDiag[key] = []`
WithArray(object, key) ==
    IF ~Truthy(Lookup(object, key)) THEN Assign(object, key, ArrayValue(<<>>))
    ELSE object

\* lines 97-108 and 110-121: the entries of the chess.com list `from`, pushed
\* to the array `to`
WithConverted(object, from, to) ==
    IF TruthyStringValue(Lookup(object, from))
    THEN Assign(object, to, ArrayValue(
             Lookup(object, to).value.array
                 \o ConvertList(Split(Lookup(object, from).value.string, ","), 1)))
    ELSE object

\* lines 85-121
convertChesscomHighlights(commentDiag) ==
    IF \/ ~TruthyObject(commentDiag)
       \/ /\ ~Truthy(Lookup(commentDiag.value, "c_highlight"))
          /\ ~Truthy(Lookup(commentDiag.value, "c_arrow"))
    THEN commentDiag
    ELSE Defined(WithConverted(
                     WithConverted(
                         WithArray(WithArray(commentDiag.value, "colorFields"),
                                   "colorArrows"),
                         "c_highlight", "colorFields"),
                     "c_arrow", "colorArrows"))

\* ------------------------------------------------------------ object heaps
\* A store is the pair of heaps, threaded through the statements of a method.
Store == [heap |-> heap, lists |-> lists]

SetField(S, m, f, v) == [S EXCEPT !.heap[m] = [S.heap[m] EXCEPT ![f] = v]]

\* array.unshift(x) in the place of push
PushFront(S, l, x) == [S EXCEPT !.lists[l] = <<x>> \o S.lists[l]]

\* array.push(x)
Push(S, l, x) == [S EXCEPT !.lists[l] = Append(S.lists[l], x)]

\* a fresh `[]`; its identity is Len(S.lists) + 1
NewList(S) == [S EXCEPT !.lists = Append(S.lists, <<>>)]

\* getMove: a fresh Move with previous, next null, variation a fresh [],
\* variations [], the engine's result and the annotations of the PgnMove; its
\* identity is Len(S.heap) + 1
getMove(S, ply, pgnMove, chessJsMove) ==
    LET S1 == NewList(S)
    IN [S1 EXCEPT !.heap = Append(S.heap,
            [previous |-> Null, next |-> Null, ply |-> ply,
             fen |-> chessJsMove.after, san |-> chessJsMove.san,
             variation |-> Len(S1.lists), variations |-> <<>>,
             nags |-> Get(pgnMove, "nag"),
             commentMove |-> Get(pgnMove, "commentMove"),
             commentAfter |-> Get(pgnMove, "commentAfter"),
             commentDiag |-> convertChesscomHighlights(Get(pgnMove, "commentDiag"))])]

\* -------------------------------------------------------- History.traverse
\* LinkPrevious without the guard of line 189: the last writer wins
LinkPreviousOverwrite(S, move, previousMove) ==
    IF previousMove /= Null
    THEN SetField(SetField(S, move, "previous", previousMove),
                  previousMove, "next", move)
    ELSE S

\* lines 187-192: link the new move behind previousMove, first writer wins
LinkPrevious(S, move, previousMove) ==
    IF previousMove /= Null
    THEN LET S1 == SetField(S, move, "previous", previousMove)
         IN IF S1.heap[previousMove].next = Null
            THEN SetField(S1, previousMove, "next", move)
            ELSE S1
    ELSE S

\* PushVariation without the length test of line 199
PushVariationAlways(S, move, variation) ==
    SetField(S, move, "variations", Append(S.heap[move].variations, variation))

\* lines 199-201: attach a built variation unless it is empty
PushVariation(S, move, variation) ==
    IF Len(S.lists[variation]) > 0
    THEN SetField(S, move, "variations", Append(S.heap[move].variations, variation))
    ELSE S

\* CommitMove without line 204: the move keeps the [] getMove gave it
CommitMoveKeepVariation(S, move, line) ==
    Push(S, line, move)

\* lines 204-205: move.variation = moves; moves.push(move)
CommitMove(S, move, line) ==
    Push(SetField(S, move, "variation", line), line, move)

\* line 196: the position a variation of the current move starts from
LastFen(S, f) ==
    IF Len(S.lists[f.moves]) > 0
    THEN S.heap[S.lists[f.moves][Len(S.lists[f.moves])]].fen
    ELSE f.fen

\* lines 175-180: a new activation of traverse; `moves` is a fresh []
Frame(S, pgnMoves, fen, parent, ply) ==
    [pgnMoves |-> pgnMoves, fen |-> fen, chess |-> Chess(fen),
     previousMove |-> parent, ply |-> ply, moves |-> Len(S.lists) + 1,
     i |-> 1, move |-> Null, j |-> 0]

\* NextIteration without the `ply++` of line 208
NextIterationSamePly(f, move) ==
    [f EXCEPT !.previousMove = move, !.i = f.i + 1, !.move = Null, !.j = 0]

\* lines 206-208 and the loop's advance
NextIteration(f, move) ==
    [f EXCEPT !.previousMove = move, !.ply = f.ply + 1, !.i = f.i + 1,
              !.move = Null, !.j = 0]

\* TraverseResult that discards the line on a throw: the catch returns a new []
TraverseResultDiscarding(S, f, threw) ==
    IF threw
    THEN [heap |-> S.heap, lists |-> NewList(S).lists, result |-> Len(S.lists) + 1]
    ELSE [heap |-> S.heap, lists |-> S.lists, result |-> f.moves]

\* lines 210-214: what an activation hands back, after a throw (caught and
\* logged) as after the loop's end: the array `moves` as it stands
TraverseResult(S, f, threw) ==
    [heap |-> S.heap, lists |-> S.lists, result |-> f.moves]

Top == stack[Len(stack)]
Caller == stack[Len(stack) - 1]
AtLoopHead == pc = "traverse" /\ Top.move = Null
PgnMove == Top.pgnMoves[Top.i]

\* What `last` records of a call: the operation, its previous/parent argument,
\* whether the engine accepted the move, the returned object, the message
\* of the exception that reached the caller ("" for none), and (traverse) the index of the record
\* the loop stood at.
NoCall == [op |-> "none", previous |-> Null, accepted |-> TRUE, result |-> Null,
           error |-> "", index |-> 0, move |-> Null, history |-> <<>>,
           renderComments |-> FALSE, renderNags |-> FALSE, text |-> <<>>]

\* `original` while the input of the constructor is not a parsed rendering
NotParsed == [parsed |-> FALSE, lines |-> <<>>]

\* ----------------------------------------------------- History.constructor
\* new Fen(fen): the FEN utility, which reads the move number and the colour
\* to play of a FEN
Fen(fen) == [moveNumber |-> fen.moveNumber, colorToPlay |-> fen.colorToPlay]

\* SetUpPly without lines 159-161: the colour to play is not looked at
SetUpPlyIgnoringColor(fen) ==
    IF fen /= NoFen THEN 2 * Fen(fen).moveNumber ELSE 1

\* lines 155-162
SetUpPly(fen) ==
    IF fen /= NoFen
    THEN IF Fen(fen).colorToPlay = "w" THEN 2 * Fen(fen).moveNumber - 1
                                       ELSE 2 * Fen(fen).moveNumber
    ELSE 1

\* The constructor has run lines 151-162 and stands at line 164.
Init ==
    /\ heap = <<>>
    /\ lists = << <<>> >>
    /\ moves = 1
    /\ setUpFen \in SetUpFens
    /\ setUpPly = SetUpPly(setUpFen)
    /\ pgn \in Inputs
    /\ stack = <<>>
    /\ pc = "constructor"
    /\ held = {}
    /\ last = NoCall
    /\ original = NotParsed

\* lines 164-165, 171-173: clear()
Clear ==
    /\ pc = "constructor"
    /\ Len(pgn) = 0
    /\ lists' = NewList(Store).lists
    /\ moves' = Len(lists) + 1
    /\ pc' = "ready"
    /\ last' = [NoCall EXCEPT !.op = "clear"]
    /\ UNCHANGED <<heap, setUpFen, setUpPly, pgn, stack, held, original>>

\* line 167: the outermost call of traverse
Construct ==
    /\ pc = "constructor"
    /\ Len(pgn) > 0
    /\ stack' = <<Frame(Store, pgn, setUpFen, Null, setUpPly)>>
    /\ lists' = NewList(Store).lists
    /\ pc' = "traverse"
    /\ last' = [NoCall EXCEPT !.op = "construct"]
    /\ UNCHANGED <<heap, moves, setUpFen, setUpPly, pgn, held, original>>

\* lines 183-192 for a legal move, then either lines 204-208 (the move has no
\* variations) or the first recursive call of line 198
TraverseMove ==
    /\ AtLoopHead
    /\ Top.i <= Len(Top.pgnMoves)
    /\ LET f == Top
           chessJsMove == chessMove(f.chess, PgnMove.notation)
           S1 == getMove(Store, f.ply, PgnMove, chessJsMove)
           move == Len(S1.heap)
           S2 == LinkPrevious(S1, move, f.previousMove)
           f1 == [f EXCEPT !.chess = chessJsMove.after]
       IN /\ ~chessJsMove.threw
          /\ IF Len(PgnMove.variations) > 0
             THEN LET callee == Frame(S2, PgnMove.variations[1], LastFen(S2, f),
                                      f.previousMove, f.ply)
                      S3 == NewList(S2)
                  IN /\ heap' = S3.heap
                     /\ lists' = S3.lists
                     /\ stack' = Append([stack EXCEPT ![Len(stack)] =
                                            [f1 EXCEPT !.move = move, !.j = 1]], callee)
             ELSE LET S3 == CommitMove(S2, move, f.moves)
                  IN /\ heap' = S3.heap
                     /\ lists' = S3.lists
                     /\ stack' = [stack EXCEPT ![Len(stack)] = NextIteration(f1, move)]
          /\ last' = [NoCall EXCEPT !.op = "move", !.previous = f.previousMove,
                                    !.result = move, !.index = f.i]
    /\ UNCHANGED <<moves, setUpFen, setUpPly, pgn, pc, held, original>>

\* line 214 `return moves`, seen from the caller: the constructor's line 167,
\* or lines 198-208 of the calling activation
Return(threw) ==
    LET f == Top
        r == TraverseResult(Store, f, threw)
        S0 == [heap |-> r.heap, lists |-> r.lists]
        result == r.result
    IN /\ IF Len(stack) = 1
          THEN /\ moves' = result
               /\ pc' = "ready"
               /\ stack' = <<>>
               /\ pgn' = <<>>
               /\ heap' = S0.heap
               /\ lists' = S0.lists
          ELSE LET c == Caller
                   pgnMove == c.pgnMoves[c.i]
                   S1 == PushVariation(S0, c.move, result)
               IN IF c.j < Len(pgnMove.variations)
                  THEN LET callee == Frame(S1, pgnMove.variations[c.j + 1],
                                           LastFen(S1, c), c.previousMove, c.ply)
                           S2 == NewList(S1)
                       IN /\ heap' = S2.heap
                          /\ lists' = S2.lists
                          /\ stack' = Append([SubSeq(stack, 1, Len(stack) - 1)
                                                 EXCEPT ![Len(stack) - 1] =
                                                     [c EXCEPT !.j = c.j + 1]], callee)
                          /\ UNCHANGED <<moves, pc, pgn>>
                  ELSE LET S2 == CommitMove(S1, c.move, c.moves)
                       IN /\ heap' = S2.heap
                          /\ lists' = S2.lists
                          /\ stack' = [SubSeq(stack, 1, Len(stack) - 1)
                                          EXCEPT ![Len(stack) - 1] =
                                              NextIteration(c, c.move)]
                          /\ UNCHANGED <<moves, pc, pgn>>
       /\ last' = [NoCall EXCEPT !.op = "traverse", !.result = result,
                                 !.accepted = ~threw, !.index = f.i]
       /\ UNCHANGED <<setUpFen, setUpPly, held, original>>

\* line 184 throws on an illegal move; lines 210-214 log and return `moves`
TraverseThrow ==
    /\ AtLoopHead
    /\ Top.i <= Len(Top.pgnMoves)
    /\ chessMove(Top.chess, PgnMove.notation).threw
    /\ Return(TRUE)

\* the loop of line 182 is exhausted
TraverseReturn ==
    /\ AtLoopHead
    /\ Top.i > Len(Top.pgnMoves)
    /\ Return(FALSE)

\* ---------------------------------------------------- History.validateMove
\* lines 271-276: the position the move is tried in
ValidatePosition(S, previous) ==
    IF previous /= Null THEN Chess(S.heap[previous].fen)
    ELSE IF setUpFen /= NoFen THEN Chess(setUpFen)
    ELSE Chess(NoFen)

\* ValidatePly that takes previous' ply as it is
ValidatePlyOfPrevious(S, previous) ==
    IF previous /= Null THEN S.heap[previous].ply ELSE setUpPly

\* line 281: the ply given to the validated move
ValidatePly(S, previous) ==
    IF previous /= Null THEN S.heap[previous].ply + 1 ELSE setUpPly

\* validateMove that links the validated move behind previous
validateMoveLinking(S, notation, previous) ==
    LET chessJsMove == chessMove(ValidatePosition(S, previous), notation)
        S1 == getMove(S, ValidatePly(S, previous), EmptyPgnMove, chessJsMove)
        S2 == LinkPrevious(S1, Len(S1.heap), previous)
    IN IF ~chessJsMove.threw
       THEN [heap |-> S2.heap, lists |-> S2.lists, result |-> Len(S2.heap),
             error |-> ""]
       ELSE [heap |-> S.heap, lists |-> S.lists, result |-> Null, error |-> ""]

\* lines 266-287: the store after the call, the returned Move (Null for
\* null) and the exception that left the method ("": none; the engine's
\* throw is caught at line 283)
validateMove(S, notation, previous) ==
    LET chessJsMove == chessMove(ValidatePosition(S, previous), notation)
        S1 == getMove(S, ValidatePly(S, previous), EmptyPgnMove, chessJsMove)
    IN IF ~chessJsMove.threw
       THEN [heap |-> S1.heap, lists |-> S1.lists, result |-> Len(S1.heap),
             error |-> ""]
       ELSE [heap |-> S.heap, lists |-> S.lists, result |-> Null, error |-> ""]

\* --------------------------------------------------------- History.addMove
\* lines 302-304 and 311-313: a new one-move variation of the move `of`
StartVariation(S, move, of) ==
    LET S1 == NewList(S)
        line == Len(S1.lists)
        S2 == SetField(S1, of, "variations", Append(S1.heap[of].variations, line))
    IN Push(SetField(S2, move, "variation", line), line, move)

\* ContinueLine without line 306: previous.next stays null
ContinueLineNoNext(S, move, previous) ==
    LET line == S.heap[previous].variation
    IN Push(SetField(S, move, "variation", line), line, move)

\* lines 306-308: the move continues previous' line
ContinueLine(S, move, previous) ==
    LET S1 == SetField(S, previous, "next", move)
        line == S1.heap[previous].variation
    IN Push(SetField(S1, move, "variation", line), line, move)

\* lines 315-316: the first move of an empty tree
FirstMove(S, move) ==
    Push(SetField(S, move, "variation", moves), moves, move)

\* Splice that starts the variation on previous itself, not on previous.next
SpliceOnPrevious(S, move, previous) ==
    LET S1 == SetField(S, move, "previous", previous)
    IN IF previous /= Null
       THEN IF S1.heap[previous].next /= Null
            THEN StartVariation(S1, move, previous)
            ELSE ContinueLine(S1, move, previous)
       ELSE IF Len(S1.lists[moves]) > 0
            THEN StartVariation(S1, move, S1.lists[moves][1])
            ELSE FirstMove(S1, move)

\* Splice that appends a move without previousMove to the mainline
SpliceIntoMainline(S, move, previous) ==
    LET S1 == SetField(S, move, "previous", previous)
    IN IF previous /= Null
       THEN IF S1.heap[previous].next /= Null
            THEN StartVariation(S1, move, S1.heap[previous].next)
            ELSE ContinueLine(S1, move, previous)
       ELSE FirstMove(S1, move)

\* lines 299-318
Splice(S, move, previous) ==
    LET S1 == SetField(S, move, "previous", previous)
    IN IF previous /= Null
       THEN IF S1.heap[previous].next /= Null
            THEN StartVariation(S1, move, S1.heap[previous].next)
            ELSE ContinueLine(S1, move, previous)
       ELSE IF Len(S1.lists[moves]) > 0
            THEN StartVariation(S1, move, S1.lists[moves][1])
            ELSE FirstMove(S1, move)

\* addMove that returns null for a rejected move instead of throwing
addMoveSilent(S, notation, previous) ==
    LET v == validateMove(S, notation, previous)
    IN IF v.result = Null
       THEN [heap |-> v.heap, lists |-> v.lists, result |-> Null, error |-> ""]
       ELSE LET S1 == Splice([heap |-> v.heap, lists |-> v.lists], v.result, previous)
            IN [heap |-> S1.heap, lists |-> S1.lists, result |-> v.result,
                error |-> ""]

\* lines 289-319
addMove(S, notation, previous) ==
    LET v == validateMove(S, notation, previous)
    IN IF v.result = Null
       THEN [heap |-> v.heap, lists |-> v.lists, result |-> Null,
             error |-> "invalid move"]
       ELSE LET S1 == Splice([heap |-> v.heap, lists |-> v.lists], v.result, previous)
            IN [heap |-> S1.heap, lists |-> S1.lists, result |-> v.result,
                error |-> ""]

\* Any Move the caller can hold: one of the tree, or one validateMove returned.
Moves == 1..Len(heap)

Accepted(notation, previous) ==
    ~chessMove(ValidatePosition(Store, previous), notation).threw

ValidateMove ==
    /\ pc = "ready"
    /\ \E notation \in Notations, previous \in Moves \cup {Null} :
          /\ Accepted(notation, previous) =>
                 Len(heap) < MaxMoves /\ Cardinality(held) < MaxHeld
          /\ LET r == validateMove(Store, notation, previous)
             IN /\ heap' = r.heap
                /\ lists' = r.lists
                /\ held' = held \cup ({r.result} \ {Null})
                /\ last' = [NoCall EXCEPT !.op = "validateMove", !.previous = previous,
                                          !.accepted = Accepted(notation, previous),
                                          !.result = r.result, !.error = r.error]
    /\ UNCHANGED <<moves, setUpFen, setUpPly, pgn, stack, pc, original>>

AddMove ==
    /\ pc = "ready"
    /\ \E notation \in Notations, previous \in Moves \cup {Null} :
          /\ Accepted(notation, previous) => Len(heap) < MaxMoves
          /\ LET r == addMove(Store, notation, previous)
             IN /\ heap' = r.heap
                /\ lists' = r.lists
                /\ last' = [NoCall EXCEPT !.op = "addMove", !.previous = previous,
                                          !.accepted = Accepted(notation, previous),
                                          !.result = r.result, !.error = r.error]
    /\ UNCHANGED <<moves, setUpFen, setUpPly, pgn, stack, pc, held, original>>

\* ---------------------------------------------------- History.historyToMove
\* array.reverse()
Reverse(s) == [k \in 1..Len(s) |-> s[Len(s) + 1 - k]]

\* lines 252-255: the loop, from `pointer` with `moves` collected so far
RECURSIVE WalkBack(_, _, _)
WalkBack(S, pointer, collected) ==
    IF S.heap[pointer].previous /= Null
    THEN WalkBack(S, S.heap[pointer].previous,
                  Append(collected, S.heap[pointer].previous))
    ELSE collected

\* historyToMove without the reverse() of line 256
historyToMoveBackwards(S, move) == WalkBack(S, move, <<move>>)

\* lines 248-257
historyToMove(S, move) == Reverse(WalkBack(S, move, <<move>>))

HistoryToMove ==
    /\ pc = "ready"
    /\ \E move \in Moves :
          last' = [NoCall EXCEPT !.op = "historyToMove", !.move = move,
                                 !.history = historyToMove(Store, move)]
    /\ UNCHANGED <<heap, lists, moves, setUpFen, setUpPly, pgn, stack, pc, held,
                   original>>

\* ------------------------------------------------------------ renderCommands
\* lines 55-59: the clock, left-padded with "00" to three components
RECURSIVE PadClock(_)
PadClock(tokens) ==
    IF Len(tokens) < 3 THEN PadClock(<<<<"0", "0">>>> \o tokens) ELSE tokens

\* lines 54-64: the directives of the entries of `rest`, from entry i
RECURSIVE RenderRest(_, _)
RenderRest(rest, i) ==
    IF i > Len(rest) THEN <<>>
    ELSE LET k == rest[i].key
             v == Defined(rest[i].value)
         IN (IF k = "clk" /\ TruthyStringValue(v)
             THEN <<"[", "%", "c", "l", "k", " ">>
                      \o Join(PadClock(Split(v.value.string, ":")), <<":">>) \o <<"]">>
             ELSE IF Truthy(v)
             THEN <<"[", "%">> \o Chars(k) \o <<" ">>
                      \o (IF v.value.type = "string" THEN v.value.string
                                                     ELSE Join(v.value.array, <<",">>))
                      \o <<"]">>
             ELSE <<>>)
            \o RenderRest(rest, i + 1)

\* lines 39-69
renderCommands(commentDiag) ==
    LET colorArrows == Lookup(commentDiag, "colorArrows")
        colorFields == Lookup(commentDiag, "colorFields")
        comment == Lookup(commentDiag, "comment")
        rest == SelectSeq(commentDiag,
                    LAMBDA e : e.key \notin {"colorArrows", "colorFields", "comment"})
        cal == IF Truthy(colorArrows) /\ Len(colorArrows.value.array) > 0
               THEN <<"[", "%", "c", "a", "l", " ">>
                        \o Join(colorArrows.value.array, <<",">>) \o <<"]">>
               ELSE <<>>
        csl == IF Truthy(colorFields) /\ Len(colorFields.value.array) > 0
               THEN <<"[", "%", "c", "s", "l", " ">>
                        \o Join(colorFields.value.array, <<",">>) \o <<"]">>
               ELSE <<>>
    IN IF Truthy(comment) /\ Len(commentDiag) = 1
       THEN <<>>
       ELSE <<"{", " ">> \o cal \o csl \o RenderRest(rest, 1) \o <<" ", "}", " ">>

\* ------------------------------------------------------------ History.render
\* What renderVariation adds to `result` in one `+=` is a piece: its kind, the
\* move it is emitted for, and its characters.
Piece(kind, move, text) == [kind |-> kind, move |-> move, text |-> text]

\* the string a sequence of pieces is
RECURSIVE Text(_)
Text(pieces) ==
    IF Len(pieces) = 0 THEN <<>> ELSE pieces[1].text \o Text(Tail(pieces))

\* line 332 with Math.ceil in the place of Math.floor
MoveNumberCeil(ply) == ((ply + 1) \div 2) + 1

\* line 332: Math.floor(move.ply / 2) + 1
MoveNumber(ply) == (ply \div 2) + 1

\* line 333 without `result.length === 0`
ReminderDueOnlyOnFlag(result, needReminder) == needReminder

\* line 333: the condition of the ellipsis token of an even ply
ReminderDue(result, needReminder) == Len(Text(result)) = 0 \/ needReminder

\* the loop of lines 349-354 without the parentheses
RECURSIVE RenderVariationsUnwrapped(_, _, _, _, _)
RECURSIVE RenderVariations(_, _, _, _, _)
RECURSIVE RenderLoop(_, _, _, _, _, _)

RenderVariationsUnwrapped(S, options, move, j, result) ==
    IF j > Len(S.heap[move].variations) THEN result
    ELSE RenderVariationsUnwrapped(S, options, move, j + 1,
             result \o RenderLoop(S, options, S.lists[S.heap[move].variations[j]],
                                  1, <<>>, FALSE))

\* lines 349-354: the variations of `move` from the j-th, in parentheses
RenderVariations(S, options, move, j, result) ==
    IF j > Len(S.heap[move].variations) THEN result
    ELSE RenderVariations(S, options, move, j + 1,
             result \o <<Piece("open", move, <<"(">>)>>
                    \o RenderLoop(S, options, S.lists[S.heap[move].variations[j]],
                                  1, <<>>, FALSE)
                    \o <<Piece("close", move, <<")", " ">>)>>)

\* `if (condition) result += text`
AppendIf(condition, result, piece) ==
    IF condition THEN Append(result, piece) ELSE result

\* lines 331-335: the move-number token
WithMoveNumber(result, needReminder, move, ply) ==
    IF ply % 2 = 1
    THEN Append(result, Piece("number", move,
                    NumberToString(MoveNumber(ply)) \o <<".", " ">>))
    ELSE AppendIf(ReminderDue(result, needReminder), result,
                  Piece("reminder", move,
                        NumberToString(ply \div 2) \o <<".", ".", ".", " ">>))

\* a comment in braces, as lines 327 and 344 write it
Braced(comment) == <<"{", " ">> \o comment \o <<" ", "}", " ">>

\* lines 324-359: the loop of renderVariation from the i-th move of the line,
\* with `result` (as pieces) and `needReminder` as the iteration finds them
RenderLoop(S, options, variation, i, result, needReminder) ==
    IF i > Len(variation) THEN result
    ELSE LET move == variation[i]
             m == S.heap[move]
             hasCommentMove == options.renderComments /\ TruthyString(m.commentMove)
             hasCommentAfter == options.renderComments /\ TruthyString(m.commentAfter)
             r1 == AppendIf(hasCommentMove, result,
                            Piece("commentMove", move, Braced(m.commentMove.value)))
             r2 == WithMoveNumber(r1, hasCommentMove \/ needReminder, move, m.ply)
             r3 == Append(r2, Piece("san", move, Chars(m.san) \o <<" ">>))
             r4 == AppendIf(options.renderNags /\ TruthyObject(m.nags), r3,
                            Piece("nags", move, Join(m.nags.value, <<" ">>) \o <<" ">>))
             r5 == AppendIf(hasCommentAfter, r4,
                            Piece("commentAfter", move, Braced(m.commentAfter.value)))
             r6 == AppendIf(options.renderComments /\ TruthyObject(m.commentDiag), r5,
                            Piece("commentDiag", move,
                                  renderCommands(m.commentDiag.value)))
             r7 == RenderVariations(S, options, move, 1, r6)
             r8 == Append(r7, Piece("space", move, <<" ">>))
         IN RenderLoop(S, options, variation, i + 1, r8,
                       hasCommentAfter \/ Len(m.variations) > 0)

\* lines 322-360: renderVariation(variation), as pieces
renderVariation(S, options, variation) ==
    RenderLoop(S, options, S.lists[variation], 1, <<>>, FALSE)

\* the characters of s at the indices in `indices`, in order
KeepWhere(s, indices) ==
    LET marked == [i \in 1..Len(s) |-> [char |-> s[i], keep |-> i \in indices]]
        kept == SelectSeq(marked, LAMBDA e : e.keep)
    IN [k \in 1..Len(kept) |-> kept[k].char]

\* the indices of s that hold something else than a space
NonSpaces(s) == {i \in 1..Len(s) : s[i] /= " "}

Max(set) == CHOOSE x \in set : \A y \in set : y <= x
Min(set) == CHOOSE x \in set : \A y \in set : x <= y

\* line 364: ret.replace(/\s+\)/g, ')'): a space goes when only spaces
\* separate it from a following bracket
RemoveSpacesBeforeBrackets(s) ==
    LET Behind(i) == {j \in NonSpaces(s) : j > i}
    IN KeepWhere(s, {i \in 1..Len(s) :
           ~(s[i] = " " /\ Behind(i) /= {} /\ s[Min(Behind(i))] = ")")})

\* line 366: ret.replace(/  /g, ' '): one pass from the left, each pair of
\* spaces to one; of a run of spaces the 1st, 3rd, 5th ... stay
RemoveDoubleSpaces(s) ==
    LET SpacesBefore(i) == i - 1 - Max({0} \cup {j \in NonSpaces(s) : j < i})
    IN KeepWhere(s, {i \in 1..Len(s) : s[i] /= " " \/ SpacesBefore(i) % 2 = 0})

\* line 366: string.trim()
Trim(s) ==
    IF NonSpaces(s) = {} THEN <<>>
    ELSE SubSeq(s, Min(NonSpaces(s)), Max(NonSpaces(s)))

\* lines 321-368
render(S, variation, renderComments, renderNags) ==
    LET options == [renderComments |-> renderComments, renderNags |-> renderNags]
        ret == Text(renderVariation(S, options, variation))
    IN Trim(RemoveDoubleSpaces(RemoveSpacesBeforeBrackets(ret)))

Render ==
    /\ pc = "ready"
    /\ \E renderComments \in BOOLEAN, renderNags \in BOOLEAN :
          last' = [NoCall EXCEPT !.op = "render",
                                 !.renderComments = renderComments,
                                 !.renderNags = renderNags,
                                 !.text = render(Store, moves, renderComments, renderNags)]
    /\ UNCHANGED <<heap, lists, moves, setUpFen, setUpPly, pgn, stack, pc, held,
                   original>>

\* ------------------------------------------------------- annotated input
\* the annotations one PgnMove of the annotated inputs carries: none, or one
\* of `nag`, `commentMove`, `commentAfter`, `commentDiag`
NoAnnotation ==
    [nag |-> Undefined, commentMove |-> Undefined, commentAfter |-> Undefined,
     commentDiag |-> Undefined]

DiagramComments ==
    {<<[key |-> "comment", value |-> StringValue(<<"c">>)]>>,
     <<[key |-> "comment", value |-> StringValue(<<"c">>)],
       [key |-> "colorArrows", value |-> ArrayValue(<<>>)]>>,
     <<[key |-> "colorArrows", value |-> ArrayValue(<<<<"G", "e", "2", "e", "4">>>>)]>>,
     <<[key |-> "clk", value |-> StringValue(<<"5", ":", "3", "0">>)]>>,
     <<[key |-> "c_arrow",
        value |-> StringValue(<<"e", "2", "e", "4", ";", ";", "a", "l", "t">>)]>>}

Annotations ==
    {[NoAnnotation EXCEPT !.nag = Defined(<<>>)],
     [NoAnnotation EXCEPT !.nag = Defined(<<<<"$", "1">>>>)],
     [NoAnnotation EXCEPT !.commentMove = Defined(<<"a", " ", "b">>)],
     [NoAnnotation EXCEPT !.commentAfter = Defined(<<"c">>)]}
    \cup {[NoAnnotation EXCEPT !.commentDiag = Defined(d)] : d \in DiagramComments}

\* the annotations of weight w: an annotation counts one
AnnotationsOfWeight(w) ==
    IF w = 0 THEN {NoAnnotation} ELSE IF w = 1 THEN Annotations ELSE {}

\* The annotated lines of weight n: the weight counts the PgnMove records and
\* the annotations.  A variation has at least one move: an empty one leaves
\* nothing in the tree (line 199).
RECURSIVE AnnotatedLinesOfWeight(_), AnnotatedPgnMovesOfWeight(_),
          AnnotatedVariationsOfWeight(_)
AnnotatedLinesOfWeight(n) ==
    IF n = 0 THEN {<<>>}
    ELSE UNION {{<<p>> \o rest : p \in AnnotatedPgnMovesOfWeight(k),
                                 rest \in AnnotatedLinesOfWeight(n - k)} : k \in 1..n}
AnnotatedPgnMovesOfWeight(k) ==
    UNION {{[notation |-> n, variations |-> v] @@ a :
                n \in Notations,
                v \in AnnotatedVariationsOfWeight(k - 1 - w),
                a \in AnnotationsOfWeight(w)} : w \in 0..(k - 1)}
AnnotatedVariationsOfWeight(n) ==
    IF n = 0 THEN {<<>>}
    ELSE UNION {{<<l>> \o rest : l \in AnnotatedLinesOfWeight(w),
                                 rest \in AnnotatedVariationsOfWeight(n - w)} : w \in 1..n}

AnnotatedInputs == UNION {AnnotatedLinesOfWeight(n) : n \in 0..MaxAnnotated}

\* ------------------------------------------------------------ PGN movetext
\* The parser that turns movetext into PgnMove records: a token is a SAN, an
\* opening or a closing parenthesis; brace comments, NAGs ($n) and move
\* numbers are read over.  A parenthesised line is a variation of the move
\* before it.
Digits == {Digit[d] : d \in 1..10}

Notation(chars) ==
    IF \E n \in Notations : Chars(n) = chars
    THEN CHOOSE n \in Notations : Chars(n) = chars
    ELSE "?"

\* the number of leading characters of s that are in `chars`
RECURSIVE Span(_, _)
Span(s, chars) ==
    IF Len(s) > 0 /\ s[1] \in chars THEN 1 + Span(Tail(s), chars) ELSE 0

\* the number of leading characters of s that are not in `chars`
RECURSIVE SpanUntil(_, _)
SpanUntil(s, chars) ==
    IF Len(s) > 0 /\ s[1] \notin chars THEN 1 + SpanUntil(Tail(s), chars) ELSE 0

RECURSIVE Tokens(_)
Tokens(s) ==
    IF Len(s) = 0 THEN <<>>
    ELSE LET c == s[1]
             Drop(n) == SubSeq(s, n + 1, Len(s))
         IN CASE c = " " -> Tokens(Drop(Span(s, {" "})))
              [] c = "(" -> <<[kind |-> "open", text |-> <<c>>]>> \o Tokens(Tail(s))
              [] c = ")" -> <<[kind |-> "close", text |-> <<c>>]>> \o Tokens(Tail(s))
              [] c = "{" -> Tokens(Drop(SpanUntil(s, {"}"}) + 1))
              [] c = "$" -> Tokens(Drop(1 + Span(Tail(s), Digits)))
              [] c \in Digits ->
                    LET digits == Span(s, Digits)
                    IN Tokens(Drop(digits + Span(Drop(digits), {"."})))
              [] OTHER ->
                    LET n == SpanUntil(s, {" ", "(", ")", "{"})
                    IN <<[kind |-> "san", text |-> SubSeq(s, 1, n)]>> \o Tokens(Drop(n))

\* a line, then the variations that follow a move: the records read, the
\* tokens left, and whether the tokens read were well formed
RECURSIVE ParseLine(_), ParseVariations(_)
ParseLine(tokens) ==
    IF Len(tokens) = 0 \/ tokens[1].kind = "close"
    THEN [ok |-> TRUE, moves |-> <<>>, rest |-> tokens]
    ELSE IF tokens[1].kind = "open"
    THEN [ok |-> FALSE, moves |-> <<>>, rest |-> tokens]
    ELSE LET v == ParseVariations(Tail(tokens))
             l == ParseLine(v.rest)
         IN [ok |-> v.ok /\ l.ok,
             moves |-> <<[notation |-> Notation(tokens[1].text),
                          variations |-> v.variations]>> \o l.moves,
             rest |-> l.rest]
ParseVariations(tokens) ==
    IF Len(tokens) = 0 \/ tokens[1].kind /= "open"
    THEN [ok |-> TRUE, variations |-> <<>>, rest |-> tokens]
    ELSE LET l == ParseLine(Tail(tokens))
         IN IF ~l.ok \/ Len(l.rest) = 0
            THEN [ok |-> FALSE, variations |-> <<>>, rest |-> <<>>]
            ELSE LET v == ParseVariations(Tail(l.rest))
                 IN [ok |-> v.ok, variations |-> <<l.moves>> \o v.variations,
                     rest |-> v.rest]

\* the moves of a movetext; none when it is not well formed
parse(text) ==
    LET l == ParseLine(Tokens(text))
    IN IF l.ok /\ Len(l.rest) = 0 THEN l.moves ELSE <<>>

\* the SANs of a line and, for each move, of the lines of its variations
RECURSIVE Lines(_, _)
Lines(S, variation) ==
    [k \in 1..Len(S.lists[variation]) |->
        LET m == S.heap[S.lists[variation][k]]
        IN [san |-> m.san,
            variations |-> [j \in 1..Len(m.variations) |-> Lines(S, m.variations[j])]]]

\* the state after construction from the annotated inputs
InitRender ==
    /\ heap = <<>>
    /\ lists = << <<>> >>
    /\ moves = 1
    /\ setUpFen \in SetUpFens
    /\ setUpPly = SetUpPly(setUpFen)
    /\ pgn \in AnnotatedInputs
    /\ stack = <<>>
    /\ pc = "constructor"
    /\ held = {}
    /\ last = NoCall
    /\ original = NotParsed

\* new History(parse(text), setUpFen) on the text render(true, true) returned
Reparse ==
    /\ pc = "ready"
    /\ last.op = "render"
    /\ last.renderComments /\ last.renderNags
    /\ ~original.parsed
    /\ original' = [parsed |-> TRUE, lines |-> Lines(Store, moves)]
    /\ pgn' = parse(last.text)
    /\ heap' = <<>>
    /\ lists' = << <<>> >>
    /\ moves' = 1
    /\ pc' = "constructor"
    /\ last' = [NoCall EXCEPT !.op = "parse"]
    /\ UNCHANGED <<setUpFen, setUpPly, stack, held>>

Next ==
    \/ Clear
    \/ Construct
    \/ TraverseMove
    \/ TraverseThrow
    \/ TraverseReturn
    \/ ValidateMove
    \/ AddMove

Spec == Init /\ [][Next]_vars

\* construction, then addMove and historyToMove in any order
NextHistoryToMove ==
    \/ Clear
    \/ Construct
    \/ TraverseMove
    \/ TraverseThrow
    \/ TraverseReturn
    \/ AddMove
    \/ HistoryToMove

SpecHistoryToMove == Init /\ [][NextHistoryToMove]_vars

\* construction from annotated input, rendering, and construction again from
\* the parsed rendering
NextRender ==
    \/ Clear
    \/ Construct
    \/ TraverseMove
    \/ TraverseThrow
    \/ TraverseReturn
    \/ Render
    \/ Reparse

SpecRender == InitRender /\ [][NextRender]_vars

\* ================================================================ claims
IsPrefix(s, t) == Len(s) <= Len(t) /\ SubSeq(t, 1, Len(s)) = s
Last(s) == s[Len(s)]
Lists == 1..Len(lists)
Elems(s) == {s[k] : k \in 1..Len(s)}

\* the step just taken was a successful addMove(notation, previous)
Added == last.op = "addMove" /\ last.result /= Null

\* C1: once a move's `next` is non-null no step, of the builder or of addMove
\* with any previousMove, assigns it a different value.
C1_NextNeverReassigned ==
    [][\A m \in Moves : heap[m].next /= Null => heap'[m].next = heap[m].next]_vars

\* addMove has succeeded behind a move that already had a `next`
C1_Witness ==
    /\ Added
    /\ last.previous \in Elems(lists[moves])
    /\ heap[last.previous].next /= Null
    /\ heap[last.previous].next /= last.result

\* C2: a successful addMove behind a previousMove whose `next` is set puts the
\* new move alone in a new list appended at the end of
\* previousMove.next.variations; the new move's `variation` is that list, its
\* `previous` is previousMove; previousMove.next and previousMove.variation
\* are unchanged.
C2_AddMoveStartsVariation ==
    [][(last'.op = "addMove" /\ last'.result /= Null /\ last'.previous /= Null
            /\ heap[last'.previous].next /= Null) =>
        LET previous == last'.previous
            move == last'.result
            sibling == heap[previous].next
            line == heap'[move].variation
        IN /\ heap'[sibling].variations = Append(heap[sibling].variations, line)
           /\ line \notin Lists
           /\ lists'[line] = <<move>>
           /\ heap'[move].previous = previous
           /\ heap'[previous].next = sibling
           /\ heap'[previous].variation = heap[previous].variation
           /\ lists'[heap[previous].variation] = lists[heap[previous].variation]]_vars

\* addMove has started a variation of the move that follows previousMove
C2_Witness ==
    /\ Added
    /\ last.previous /= Null
    /\ heap[last.previous].next \notin {Null, last.result}
    /\ heap[heap[last.previous].next].variations = <<heap[last.result].variation>>
    /\ lists[heap[last.result].variation] = <<last.result>>

\* C3: when the engine rejects the move, addMove raises 'invalid move' and
\* leaves History.moves and every Move and array as they were.
C3_RejectedAddMoveThrows ==
    [][(last'.op = "addMove" /\ ~last'.accepted) =>
        /\ last'.error = "invalid move"
        /\ last'.result = Null
        /\ heap' = heap
        /\ lists' = lists
        /\ moves' = moves]_vars

\* addMove has thrown on a tree that holds moves
C3_Witness ==
    /\ last.op = "addMove"
    /\ ~last.accepted
    /\ last.error = "invalid move"
    /\ last.previous /= Null
    /\ Len(lists[moves]) > 0

\* the step just taken was a throw of line 184, caught at line 210
Threw == last.op = "traverse" /\ ~last.accepted

\* C4 as claimed: a line that meets an illegal move is returned empty.
C4_AbortedLineIsEmpty ==
    Threw => lists[last.result] = <<>>

\* C4, amended: a line that meets an illegal move is cut there.  The array
\* returned holds exactly the moves built from the records before the illegal
\* one, in order, and nothing is removed from it.
C4_AbortedLineIsPrefix ==
    [][(last'.op = "traverse" /\ ~last'.accepted) =>
        LET f == Top
        IN /\ last'.result = f.moves
           /\ lists'[f.moves] = lists[f.moves]
           /\ Len(lists[f.moves]) = f.i - 1
           /\ \A k \in 1..(f.i - 1) :
                 /\ heap'[lists[f.moves][k]].san = f.pgnMoves[k].notation
                 /\ heap'[lists[f.moves][k]].variation = f.moves]_vars

\* a nested variation has met an illegal move after a legal one, and the
\* one-move line it returned is attached to the move it belongs to
C4_Witness ==
    /\ Threw
    /\ Len(stack) >= 1
    /\ Len(lists[last.result]) = 1
    /\ last.index = 2
    /\ \E m \in Moves : last.result \in Elems(heap[m].variations)

\* C5: every move that is not a bare validateMove result has the ply of its
\* `previous` plus 1, or setUpPly when it has no `previous`; consecutive
\* elements of every line differ in ply by exactly 1.
C5_PlyFollowsPrevious ==
    /\ \A m \in Moves \ held :
          heap[m].ply = IF heap[m].previous /= Null
                        THEN heap[heap[m].previous].ply + 1
                        ELSE setUpPly
    /\ \A l \in Lists : \A k \in 1..(Len(lists[l]) - 1) :
          heap[lists[l][k + 1]].ply = heap[lists[l][k]].ply + 1

\* a successful addMove has continued a line of a game set up at ply 20
C5_Witness ==
    /\ Added
    /\ setUpPly = 20
    /\ last.previous /= Null
    /\ Len(lists[heap[last.result].variation]) >= 2
    /\ Last(lists[heap[last.result].variation]) = last.result

\* C6: validateMove writes nothing: History.moves, setUpFen, setUpPly, every
\* existing Move and every existing array are as before, and the returned
\* Move is in no array and is no Move's next or previous.
C6_ValidateMoveIsPure ==
    [][last'.op = "validateMove" =>
        /\ moves' = moves /\ setUpFen' = setUpFen /\ setUpPly' = setUpPly
        /\ \A m \in Moves : heap'[m] = heap[m]
        /\ \A l \in Lists : lists'[l] = lists[l]
        /\ last'.result /= Null =>
              /\ last'.result \notin Moves
              /\ \A l \in 1..Len(lists') : last'.result \notin Elems(lists'[l])
              /\ \A m \in 1..Len(heap') :
                    /\ heap'[m].next /= last'.result
                    /\ heap'[m].previous /= last'.result
                    /\ \A k \in 1..Len(heap'[m].variations) :
                          last'.result \notin Elems(lists'[heap'[m].variations[k]])]_vars

\* validateMove has returned a Move for a previousMove that has no `next`
C6_Witness ==
    /\ last.op = "validateMove"
    /\ last.result /= Null
    /\ last.previous /= Null
    /\ heap[last.previous].next = Null

\* C7: validateMove lets no exception out; it returns null when the engine
\* rejects the move and otherwise a Move whose ply is previousMove.ply + 1, or
\* setUpPly without a previousMove.
C7_ValidateMoveResult ==
    last.op = "validateMove" =>
        /\ last.error = ""
        /\ ~last.accepted => last.result = Null
        /\ last.accepted =>
              /\ last.result \in Moves
              /\ heap[last.result].ply =
                    IF last.previous /= Null THEN heap[last.previous].ply + 1
                                             ELSE setUpPly

\* validateMove has accepted a move behind a previousMove
C7_Witness ==
    /\ last.op = "validateMove"
    /\ last.accepted
    /\ last.previous /= Null
    /\ heap[last.result].ply = heap[last.previous].ply + 1

\* C8: a successful addMove without previousMove makes the new move the only
\* element of History.moves when the tree is empty, with History.moves as its
\* `variation`; otherwise it puts the move alone in a new list appended to
\* the root move's `variations` and leaves History.moves as it was.
C8_AddMoveWithoutPrevious ==
    [][(last'.op = "addMove" /\ last'.result /= Null /\ last'.previous = Null) =>
        LET move == last'.result
            line == heap'[move].variation
        IN /\ moves' = moves
           /\ heap'[move].previous = Null
           /\ IF lists[moves] = <<>>
              THEN /\ line = moves
                   /\ lists'[moves] = <<move>>
              ELSE LET root == lists[moves][1]
                   IN /\ heap'[root].variations = Append(heap[root].variations, line)
                      /\ line \notin Lists
                      /\ lists'[line] = <<move>>
                      /\ lists'[moves] = lists[moves]]_vars

\* addMove without previousMove has added a second variation to the root move
C8_Witness ==
    /\ Added
    /\ last.previous = Null
    /\ Len(lists[moves]) > 0
    /\ Len(heap[lists[moves][1]].variations) = 2
    /\ Last(heap[lists[moves][1]].variations) = heap[last.result].variation

\* C9: every array of moves and every move's `variations` is only appended
\* to: what it held before a step is a prefix of what it holds after, for
\* the steps of the builder and of addMove alike, and for History.moves.
C9_AppendOnly ==
    [][/\ \A l \in Lists : IsPrefix(lists[l], lists'[l])
       /\ \A m \in Moves : IsPrefix(heap[m].variations, heap'[m].variations)
       /\ IsPrefix(lists[moves], lists'[moves'])]_vars

\* addMove has appended to a line that held a move, on a move of which the
\* builder had attached a variation
C9_Witness ==
    /\ Added
    /\ Len(lists[heap[last.result].variation]) >= 2
    /\ Last(lists[heap[last.result].variation]) = last.result
    /\ \E m \in Moves : Len(heap[m].variations) >= 1

\* C10: no entry of any move's `variations` is an empty list, in the states
\* between operations as in those of the builder at work.
C10_NoEmptyVariation ==
    \A m \in Moves : \A k \in 1..Len(heap[m].variations) :
        lists[heap[m].variations[k]] /= <<>>

\* the builder has got an empty line for a nested variation and has not
\* attached it
C10_Witness ==
    /\ last.op = "traverse"
    /\ lists[last.result] = <<>>
    /\ Len(stack) >= 1
    /\ \A m \in Moves : last.result \notin Elems(heap[m].variations)

\* the Moves an activation of traverse has built and not yet pushed
InFlight == {stack[k].move : k \in 1..Len(stack)} \ {Null}

\* C11: every move of the tree is an element of the list its `variation`
\* refers to, and a non-empty History.moves is the very list the `variation`
\* of History.moves[0] refers to.
C11_VariationHoldsMove ==
    /\ \A m \in Moves \ (held \cup InFlight) : m \in Elems(lists[heap[m].variation])
    /\ pc = "ready" /\ lists[moves] /= <<>> =>
          heap[lists[moves][1]].variation = moves

\* addMove has started a variation in a built tree whose mainline holds two
\* moves
C11_Witness ==
    /\ Added
    /\ Len(lists[moves]) >= 2
    /\ heap[last.result].variation /= moves
    /\ last.result \in Elems(lists[heap[last.result].variation])

\* C12: setUpPly is 1 without a setup FEN, else 2 * moveNumber - 1 with White
\* to move and 2 * moveNumber with Black to move (20 for Black at move 10);
\* the first move of the mainline and every move added without previousMove
\* have ply setUpPly.
C12_SetUpPly ==
    /\ setUpFen = NoFen => setUpPly = 1
    /\ setUpFen /= NoFen /\ setUpFen.colorToPlay = "w" =>
          setUpPly = 2 * setUpFen.moveNumber - 1
    /\ setUpFen /= NoFen /\ setUpFen.colorToPlay = "b" =>
          setUpPly = 2 * setUpFen.moveNumber
    /\ setUpFen = [moveNumber |-> 10, colorToPlay |-> "b"] => setUpPly = 20
    /\ pc = "ready" /\ lists[moves] /= <<>> => heap[lists[moves][1]].ply = setUpPly
    /\ Added /\ last.previous = Null => heap[last.result].ply = setUpPly

\* from Black to move at move 10 a mainline has been built, its first move
\* has ply 20, and addMove without previousMove has added a move of ply 20
C12_Witness ==
    /\ setUpFen = [moveNumber |-> 10, colorToPlay |-> "b"]
    /\ setUpPly = 20
    /\ Added
    /\ last.previous = Null
    /\ Len(lists[moves]) >= 2
    /\ heap[lists[moves][1]].ply = 20
    /\ heap[last.result].ply = 20
    /\ last.result /= lists[moves][1]

\* C18: the first move of every line in a move's `variations` has the same
\* `previous` as that move (null for a variation of the root) and the same
\* ply.
C18_SiblingsShareParent ==
    \A m \in Moves : \A k \in 1..Len(heap[m].variations) :
        LET first == lists[heap[m].variations[k]][1]
        IN /\ heap[first].previous = heap[m].previous
           /\ heap[first].ply = heap[m].ply

\* addMove has started a variation next to a move that has a `previous`, on
\* a tree the builder made
C18_Witness ==
    /\ Added
    /\ last.previous /= Null
    /\ \E m \in Moves :
          /\ heap[m].variations /= <<>>
          /\ Last(heap[m].variations) = heap[last.result].variation
          /\ heap[m].previous = last.previous
          /\ heap[m].ply = heap[last.result].ply

\* C19: between operations, a move's `next` is null exactly when the move is
\* the last element of its `variation`; a non-null `next` is the element
\* right after the move in its `variation`, and its `previous` is the move.
\* (A Move validateMove returned is in no line and is not part of the tree.)
C19_NextIsSuccessorInLine ==
    pc = "ready" =>
        \A m \in Moves \ held :
            LET line == lists[heap[m].variation]
            IN \E k \in 1..Len(line) :
                  /\ line[k] = m
                  /\ heap[m].next = Null <=> k = Len(line)
                  /\ heap[m].next /= Null =>
                        /\ k < Len(line)
                        /\ line[k + 1] = heap[m].next
                        /\ heap[heap[m].next].previous = m

\* a build has met an illegal move after two legal ones, and addMove has then
\* continued the cut line
C19_Witness ==
    /\ Added
    /\ last.previous /= Null
    /\ heap[last.previous].next = last.result
    /\ lists[moves] = <<last.previous, last.result>>
    /\ heap[last.result].next = Null

\* C20: in a tree made by construction and addMove calls, `previous` leads
\* from every move to a move one ply earlier, so the chain is acyclic and
\* historyToMove terminates; the sequence it returns ends with the move, starts
\* with a move without `previous` at ply setUpPly, has each element the
\* `previous` of the one after it, and so has move.ply - setUpPly + 1 elements
\* of consecutive plies; the call changes nothing of the tree.
C20_HistoryToMove ==
    /\ [](\A m \in Moves : heap[m].previous /= Null =>
              /\ heap[m].previous \in Moves
              /\ heap[heap[m].previous].ply = heap[m].ply - 1)
    /\ [][last'.op = "historyToMove" =>
            LET move == last'.move
                history == last'.history
            IN /\ <<heap', lists', moves', setUpPly'>> = <<heap, lists, moves, setUpPly>>
               /\ Len(history) = heap[move].ply - setUpPly + 1
               /\ Last(history) = move
               /\ heap[history[1]].previous = Null
               /\ heap[history[1]].ply = setUpPly
               /\ \A k \in 1..(Len(history) - 1) :
                     /\ history[k] = heap[history[k + 1]].previous
                     /\ heap[history[k + 1]].ply = heap[history[k]].ply + 1]_vars

\* historyToMove has returned the two moves that lead to a move of a
\* variation, from a set-up position with Black to play
C20_Witness ==
    /\ last.op = "historyToMove"
    /\ Len(last.history) = 2
    /\ heap[last.move].variation /= moves
    /\ setUpPly = 20
    /\ last.history[1] \in Elems(lists[moves])

\* ------------------------------------------------------- claims on render
\* the step just taken was render(renderComments, renderNags)
Rendered == last.op = "render"

\* the pieces renderVariation(this.moves) put together in that call
Pieces ==
    renderVariation(Store, [renderComments |-> last.renderComments,
                            renderNags |-> last.renderNags], moves)

\* the places of the SANs of the moves of odd and of even ply among the pieces
OddSans(pieces) ==
    {k \in 1..Len(pieces) : pieces[k].kind = "san" /\ heap[pieces[k].move].ply % 2 = 1}
EvenSans(pieces) ==
    {k \in 1..Len(pieces) : pieces[k].kind = "san" /\ heap[pieces[k].move].ply % 2 = 0}

\* the piece before the k-th is a move-number token of the same move
HasToken(pieces, k) ==
    /\ k > 1
    /\ pieces[k - 1].kind \in {"number", "reminder"}
    /\ pieces[k - 1].move = pieces[k].move

\* C13: a tree built from parsed input, rendered with comments and NAGs,
\* parsed again and built again from the same set-up position has the same
\* SANs on every line and the same variations on the same moves in the same
\* order.
C13_RoundTrip ==
    pc = "ready" /\ original.parsed => Lines(Store, moves) = original.lines

\* a mainline of two moves whose first move has a variation has made the
\* round trip
C13_Witness ==
    /\ pc = "ready"
    /\ original.parsed
    /\ Len(original.lines) = 2
    /\ Len(original.lines[1].variations) = 1
    /\ Len(lists[moves]) = 2
    /\ Len(heap[lists[moves][1]].variations) = 1

\* C14 as stated: the number before the SAN of a move of odd ply is
\* ceil(ply / 2) + 1.
C14_NumberIsCeilPlusOne ==
    Rendered =>
        LET pieces == Pieces
        IN \A k \in OddSans(pieces) :
              /\ HasToken(pieces, k)
              /\ pieces[k - 1].text =
                    NumberToString(((heap[pieces[k].move].ply + 1) \div 2) + 1)
                        \o <<".", " ">>

\* C14: render emits, immediately before the SAN of every move of odd ply,
\* the number floor(ply / 2) + 1 = (ply + 1) / 2 followed by ". ".
C14_NumberIsFloorPlusOne ==
    Rendered =>
        LET pieces == Pieces
        IN \A k \in OddSans(pieces) :
              /\ HasToken(pieces, k)
              /\ pieces[k - 1].text =
                    NumberToString((heap[pieces[k].move].ply + 1) \div 2)
                        \o <<".", " ">>

\* from the set-up position of move 10 with Black to play, the line e5 e4 has
\* been rendered as "10... e5 11. e4"
C14_Witness ==
    /\ Rendered
    /\ last.text = <<"1", "0", ".", ".", ".", " ", "e", "5", " ",
                     "1", "1", ".", " ", "e", "4">>
    /\ OddSans(Pieces) /= {}

\* the last piece before the p-th that put characters other than the space
\* that ends an iteration into the text; 0 when there is none
Preceding(pieces, p) ==
    LET before == {q \in 1..(p - 1) :
                      pieces[q].kind /= "space" /\ Len(pieces[q].text) > 0}
    IN IF before = {} THEN 0 ELSE Max(before)

\* the k-th piece, with its token when it has one, is the first emitted or
\* comes right after a comment or a closing parenthesis
AfterCommentOrClose(pieces, k) ==
    LET p == Preceding(pieces, IF HasToken(pieces, k) THEN k - 1 ELSE k)
    IN p = 0 \/ pieces[p].kind \in {"commentMove", "commentAfter", "commentDiag", "close"}

\* C15 as stated: a move of even ply has the token "N... " exactly when it is
\* the first token emitted or immediately follows a comment or a variation
\* close.
C15_ReminderAfterCommentOrClose ==
    Rendered =>
        LET pieces == Pieces
        IN \A k \in EvenSans(pieces) :
              HasToken(pieces, k) <=> AfterCommentOrClose(pieces, k)

\* the place of a move in its line
Place(move) ==
    CHOOSE i \in 1..Len(lists[heap[move].variation]) :
        lists[heap[move].variation][i] = move

\* what makes renderVariation emit the token of a move of even ply: the move
\* is the first of its line, its commentMove was emitted, or the move before
\* it in the line had its commentAfter emitted or has variations
ReminderCase(move) ==
    \/ Place(move) = 1
    \/ last.renderComments /\ TruthyString(heap[move].commentMove)
    \/ /\ Place(move) > 1
       /\ LET before == lists[heap[move].variation][Place(move) - 1]
          IN \/ last.renderComments /\ TruthyString(heap[before].commentAfter)
             \/ Len(heap[before].variations) > 0

\* C15: a move of even ply has the token "N... " (N = ply / 2) immediately
\* before its SAN exactly when it is the first move of its line, the mainline
\* or a variation, or its own commentMove was emitted, or the move before it
\* in the line had its commentAfter emitted or has variations; every other
\* move of even ply has no move-number token, also after the brace block of a
\* commentDiag.
C15_ReminderAtLineStartCommentOrVariation ==
    Rendered =>
        LET pieces == Pieces
        IN \A k \in EvenSans(pieces) :
              /\ HasToken(pieces, k) <=> ReminderCase(pieces[k].move)
              /\ HasToken(pieces, k) =>
                    pieces[k - 1].text =
                        NumberToString(heap[pieces[k].move].ply \div 2)
                            \o <<".", ".", ".", " ">>

\* "1. e4 e5 (1... e5)": Black's move opens a variation and has the token
C15_Witness ==
    /\ Rendered
    /\ last.text = <<"1", ".", " ", "e", "4", " ", "e", "5", " ", "(",
                     "1", ".", ".", ".", " ", "e", "5", ")">>
    /\ LET pieces == Pieces
       IN \E k \in EvenSans(pieces) :
             /\ HasToken(pieces, k)
             /\ Place(pieces[k].move) = 1
             /\ heap[pieces[k].move].variation /= moves

\* C16: the string render returns has no two spaces in a row, no space before
\* a closing parenthesis, and no space at its start or end.
C16_NoSpareSpace ==
    Rendered =>
        LET text == last.text
        IN /\ \A i \in 1..(Len(text) - 1) : ~(text[i] = " " /\ text[i + 1] = " ")
           /\ \A i \in 1..(Len(text) - 1) : ~(text[i] = " " /\ text[i + 1] = ")")
           /\ Len(text) > 0 => text[1] /= " " /\ text[Len(text)] /= " "

\* the DiagramComment has a `comment` and nothing else populated: no
\* non-empty colorArrows or colorFields, no other key with a non-empty value
OnlyCommentPopulated(commentDiag) ==
    /\ Truthy(Lookup(commentDiag, "comment"))
    /\ \A i \in 1..Len(commentDiag) :
          \/ commentDiag[i].key = "comment"
          \/ IF commentDiag[i].value.type = "array"
             THEN Len(commentDiag[i].value.array) = 0
             ELSE Len(commentDiag[i].value.string) = 0

\* C17: renderCommands returns the empty string for a DiagramComment whose
\* only populated field is `comment`, and never a brace block without a
\* directive.
C17_OnlyCommentRendersNothing ==
    Rendered /\ last.renderComments =>
        LET pieces == Pieces
        IN \A k \in 1..Len(pieces) :
              pieces[k].kind = "commentDiag" =>
                  LET commentDiag == heap[pieces[k].move].commentDiag.value
                  IN /\ OnlyCommentPopulated(commentDiag) =>
                           renderCommands(commentDiag) = <<>>
                     /\ pieces[k].text = renderCommands(commentDiag)
                     /\ pieces[k].text /= <<"{", " ", " ", "}", " ">>

====
